---------------------------- MODULE Spec2Model ----------------------------
(***************************************************************************)
(* Kaleidoscope front end: the lexer (getTok), the recursive-descent /     *)
(* operator-precedence parser and the driver loop (MainLoop).              *)
(*                                                                         *)
(* The repository holds two builds of the parser: src/main.cpp (parser     *)
(* only) and src/unnamed/part_001 (parser plus LLVM code generation).      *)
(* They share the lexer and the parse functions and differ in the guard of *)
(* GetTokPrecedence, in the cases of MainLoop and in what the handlers do  *)
(* with a parsed entity.  The variable build says which one runs.          *)
(*                                                                         *)
(* Characters are their ASCII codes, as in the source, where tokens are    *)
(* ints: negative for the enum Token, the character code otherwise.        *)
(***************************************************************************)
EXTENDS Integers, Sequences, FiniteSets, TLC

VARIABLES
  build,            \* "main.cpp" or "part_001"
  input,            \* stdin, a sequence of character codes
  pos,              \* index of the next character getchar() returns:
                    \* one more than the number of getchar() calls made
  LastChar,         \* static int LastChar of getTok
  IdentifierStr,    \* filled in if tok_identifier
  NumVal,           \* filled in if tok_number
  CurTok,           \* the parser's current token
  BinopPrecedence,  \* std::map<char, int>
  TheModule,        \* the functions of the LLVM module, in creation order
  LastUnique,       \* the module symbol table's counter for renamed functions
  NamedValues,      \* std::map<std::string, Value *>, TRUE for a non-null value
  errs,             \* the diagnostics LogError printed
  ntok,             \* the number of getNextToken calls made
  pc,               \* "main", "loop" (in MainLoop) or "done"
  parsed,           \* the nodes the entity parses returned to the handlers
  last              \* what the last iteration of MainLoop did

vars == <<build, input, pos, LastChar, IdentifierStr, NumVal, CurTok,
          BinopPrecedence, TheModule, LastUnique, NamedValues, errs, ntok,
          pc, parsed, last>>

---------------------------------------------------------------------------
(* enum Token and the characters the lexer and parser name *)

EOF == -1

tok_eof == -1

tok_def == -2

tok_extern == -3

tok_identifier == -4

tok_number == -5

ChSpace == 32

ChNL == 10

ChCR == 13

ChHash == 35

ChLParen == 40

ChRParen == 41

ChStar == 42

ChPlus == 43

ChComma == 44

ChMinus == 45

ChDot == 46

ChSemi == 59

ChLess == 60

(* "def" and "extern" as character sequences *)
StrDef == <<100, 101, 102>>

StrExtern == <<101, 120, 116, 101, 114, 110>>

(* <cctype> in the "C" locale *)
isspace(c) == c \in {32, 9, 10, 11, 12, 13}

isalpha(c) == c \in (65..90) \cup (97..122)

isdigit(c) == c \in 48..57

isalnum(c) == isalpha(c) \/ isdigit(c)

isascii(c) == c \in 0..127

---------------------------------------------------------------------------
(* The lexer.  A state record s carries what the lexer, the parser and the *)
(* code generator work on: build, input (stdin) and pos (how much of it    *)
(* was read), the globals LastChar, IdentifierStr, NumVal, CurTok,         *)
(* BinopPrecedence, TheModule, LastUnique, NamedValues, and the two        *)
(* observation fields errs (the diagnostics printed by LogError, each with *)
(* the number of getNextToken calls made before it) and ntok (the number   *)
(* of getNextToken calls).                                                 *)

(* Bind(x, F) is F(x) with x evaluated once: the value of a call is named  *)
(* before it is used, as a local variable of the source is.                *)
Bind(x, F(_)) == CHOOSE y \in {F(v) : v \in {x}} : TRUE

(* getchar(): the next character of stdin, EOF at and after its end *)
getchar(s) == IF s.pos <= Len(s.input) THEN s.input[s.pos] ELSE EOF

(* LastChar = getchar(): pos counts the calls of getchar, the one that     *)
(* returns EOF too                                                         *)
ReadChar(s) == [s EXCEPT !.LastChar = getchar(s), !.pos = @ + 1]

(* strtod on a string of digits and dots: the longest prefix              *)
(* digits [. digits] holding at least one digit is converted, 0 when there *)
(* is none.  The value is kept exactly, as integer part and fraction       *)
(* digits without trailing zeros.                                          *)
RECURSIVE DigitsPrefix(_)
DigitsPrefix(str) ==
  IF str = <<>> \/ ~isdigit(Head(str)) THEN <<>>
  ELSE Bind(Tail(str), LAMBDA rest : <<Head(str)>> \o DigitsPrefix(rest))

RECURSIVE DigitsValue(_, _)
DigitsValue(ds, acc) ==
  IF ds = <<>> THEN acc
  ELSE Bind(10 * acc + (Head(ds) - 48), LAMBDA v :
       Bind(Tail(ds), LAMBDA rest : DigitsValue(rest, v)))

RECURSIVE StripZeros(_)
StripZeros(ds) ==
  IF ds # <<>> /\ ds[Len(ds)] = 48
  THEN Bind(SubSeq(ds, 1, Len(ds) - 1), LAMBDA front : StripZeros(front))
  ELSE ds

strtod(str) ==
  Bind(DigitsPrefix(str), LAMBDA ip :
  Bind(SubSeq(str, Len(ip) + 1, Len(str)), LAMBDA rest :
  Bind(IF rest # <<>> /\ Head(rest) = ChDot
       THEN Bind(Tail(rest), LAMBDA r : DigitsPrefix(r)) ELSE <<>>, LAMBDA fp :
    IF ip = <<>> /\ fp = <<>> THEN [int |-> 0, frac |-> <<>>]
    ELSE [int |-> DigitsValue(ip, 0), frac |-> StripZeros(fp)])))

(* while (isspace(LastChar)) LastChar = getchar(); *)
RECURSIVE SkipSpace(_)
SkipSpace(s) ==
  IF isspace(s.LastChar) THEN Bind(ReadChar(s), LAMBDA s1 : SkipSpace(s1))
  ELSE s

(* ReadIdentifier going on over letters only *)
RECURSIVE ReadIdentifier_Alpha(_)
ReadIdentifier_Alpha(s) ==
  Bind(ReadChar(s), LAMBDA s1 :
    IF isalpha(s1.LastChar)
    THEN Bind([s1 EXCEPT !.IdentifierStr = Append(@, s1.LastChar)],
              LAMBDA s2 : ReadIdentifier_Alpha(s2))
    ELSE s1)

(* while (isalnum((LastChar = getchar()))) IdentifierStr += LastChar; *)
RECURSIVE ReadIdentifier(_)
ReadIdentifier(s) ==
  Bind(ReadChar(s), LAMBDA s1 :
    IF isalnum(s1.LastChar)
    THEN Bind([s1 EXCEPT !.IdentifierStr = Append(@, s1.LastChar)],
              LAMBDA s2 : ReadIdentifier(s2))
    ELSE s1)

(* do { NumStr += LastChar; LastChar = getchar(); }                        *)
(* while (isdigit(LastChar) || LastChar == '.');  the state and NumStr     *)
RECURSIVE ReadNumber(_, _)
ReadNumber(s, NumStr) ==
  Bind(Append(NumStr, s.LastChar), LAMBDA str :
  Bind(ReadChar(s), LAMBDA s1 :
    IF isdigit(s1.LastChar) \/ s1.LastChar = ChDot
    THEN ReadNumber(s1, str)
    ELSE [s |-> s1, NumStr |-> str]))

(* SkipComment with the loop left after its first character *)
SkipComment_One(s) == ReadChar(s)

(* do LastChar = getchar(); while (LastChar != EOF && != '\n' && != '\r'); *)
RECURSIVE SkipComment(_)
SkipComment(s) ==
  Bind(ReadChar(s), LAMBDA s1 :
    IF s1.LastChar # EOF /\ s1.LastChar # ChNL /\ s1.LastChar # ChCR
    THEN SkipComment(s1) ELSE s1)

(* TokTail that calls getchar() at the end of input too *)
TokTail_Read(s) ==
  [s |-> ReadChar(s), tok |-> IF s.LastChar = EOF THEN tok_eof ELSE s.LastChar]

(* what getTok does once a '#' comment was skipped or was not there *)
TokTail(s) ==
  IF s.LastChar = EOF THEN [s |-> s, tok |-> tok_eof]
  ELSE [s |-> ReadChar(s), tok |-> s.LastChar]

(* if (isalpha(LastChar)) { ... } of getTok *)
TokWord(s) ==
  Bind([s EXCEPT !.IdentifierStr = <<s.LastChar>>], LAMBDA s1 :
  Bind(ReadIdentifier(s1), LAMBDA s2 :
    [s |-> s2,
     tok |-> IF s2.IdentifierStr = StrDef THEN tok_def
             ELSE IF s2.IdentifierStr = StrExtern THEN tok_extern
             ELSE tok_identifier]))

(* if (isdigit(LastChar) || LastChar == '.') { ... } of getTok *)
TokNumber(s) ==
  Bind(ReadNumber(s, <<>>), LAMBDA r :
    [s |-> [r.s EXCEPT !.NumVal = strtod(r.NumStr)], tok |-> tok_number])

(* getTok: the state after the call and the token returned *)
RECURSIVE getTok(_)
getTok(s) ==
  Bind(SkipSpace(s), LAMBDA s1 :
    IF isalpha(s1.LastChar) THEN TokWord(s1)
    ELSE IF isdigit(s1.LastChar) \/ s1.LastChar = ChDot THEN TokNumber(s1)
    ELSE IF s1.LastChar = ChHash THEN
      Bind(SkipComment(s1), LAMBDA s2 :
        IF s2.LastChar # EOF THEN getTok(s2) ELSE TokTail(s2))
    ELSE TokTail(s1))

(* getNextToken: CurTok = getTok() *)
getNextToken(s) ==
  Bind(getTok(s), LAMBDA r : [r.s EXCEPT !.CurTok = r.tok, !.ntok = @ + 1])

---------------------------------------------------------------------------
(* The AST.  Null is the nullptr a failed parse returns. *)

Null == [kind |-> "null"]

NumberExprAST(Val) == [kind |-> "Number", Val |-> Val]

VariableExprAST(Name) == [kind |-> "Variable", Name |-> Name]

BinaryExprAST(Op, LHS, RHS) ==
  [kind |-> "Binary", Op |-> Op, LHS |-> LHS, RHS |-> RHS]

CallExprAST(Callee, Args) == [kind |-> "Call", Callee |-> Callee, Args |-> Args]

PrototypeAST(Name, Args) == [kind |-> "Prototype", Name |-> Name, Args |-> Args]

FunctionAST(Proto, Body) == [kind |-> "Function", Proto |-> Proto, Body |-> Body]

(* LogError / LogErrorP: print the diagnostic; the caller returns nullptr *)
LogError(s, Str) == [s EXCEPT !.errs = Append(@, [msg |-> Str, at |-> s.ntok])]

---------------------------------------------------------------------------
(* The parser.  Every parse function maps the state to the state it leaves *)
(* and the node it returns.                                                *)

RECURSIVE ParseExpression(_)
RECURSIVE ParsePrimary(_)
RECURSIVE ParseParenExpr(_)
RECURSIVE ParseIdentifierExpr(_)
RECURSIVE ParseArgs(_, _)
RECURSIVE ParseBinOpRHS(_, _, _)
RECURSIVE ReadArgNames(_, _)

Failed(s) == [s |-> s, node |-> Null]

ParseNumberExpr(s) ==
  [s |-> getNextToken(s), node |-> NumberExprAST(s.NumVal)]

(* ParseParenExpr without the if (!V) return nullptr; *)
ParseParenExpr_NoCheck(s) ==
  Bind(getNextToken(s), LAMBDA s1 :
  Bind(ParseExpression(s1), LAMBDA V :
    IF V.s.CurTok # ChRParen
    THEN Failed(LogError(V.s, "expected ')'"))
    ELSE [s |-> getNextToken(V.s), node |-> V.node]))

ParseParenExpr(s) ==
  Bind(getNextToken(s), LAMBDA s1 :
  Bind(ParseExpression(s1), LAMBDA V :
    IF V.node = Null THEN Failed(V.s)
    ELSE IF V.s.CurTok # ChRParen
    THEN Failed(LogError(V.s, "expected ')'"))
    ELSE [s |-> getNextToken(V.s), node |-> V.node]))

(* the while (true) loop of ParseIdentifierExpr, entered with CurTok at an *)
(* argument: ok is FALSE when the loop is left by return nullptr           *)
ParseArgs(s, Args) ==
  Bind(ParseExpression(s), LAMBDA Arg :
    IF Arg.node = Null THEN [s |-> Arg.s, ok |-> FALSE, Args |-> Args]
    ELSE Bind(Append(Args, Arg.node), LAMBDA Args1 :
      IF Arg.s.CurTok = ChRParen
      THEN [s |-> Arg.s, ok |-> TRUE, Args |-> Args1]
      ELSE IF Arg.s.CurTok # ChComma
      THEN [s |-> LogError(Arg.s, "Expected ')' or ',' in argument list"),
            ok |-> FALSE, Args |-> Args1]
      ELSE Bind(getNextToken(Arg.s), LAMBDA s1 : ParseArgs(s1, Args1))))

ParseIdentifierExpr(s) ==
  Bind(s.IdentifierStr, LAMBDA IdName :
  Bind(getNextToken(s), LAMBDA s1 :
    IF s1.CurTok # ChLParen
    THEN [s |-> s1, node |-> VariableExprAST(IdName)]
    ELSE
      Bind(getNextToken(s1), LAMBDA s2 :
      Bind(IF s2.CurTok # ChRParen THEN ParseArgs(s2, <<>>)
           ELSE [s |-> s2, ok |-> TRUE, Args |-> <<>>], LAMBDA a :
        IF ~a.ok THEN Failed(a.s)
        ELSE [s |-> getNextToken(a.s),
              node |-> CallExprAST(IdName, a.Args)]))))

(* ParsePrimary with a token read after the diagnostic of the default case *)
ParsePrimary_Advance(s) ==
  IF s.CurTok = tok_identifier THEN ParseIdentifierExpr(s)
  ELSE IF s.CurTok = tok_number THEN ParseNumberExpr(s)
  ELSE IF s.CurTok = ChLParen THEN ParseParenExpr(s)
  ELSE Bind(LogError(s, "unknown token, expecting expression"),
            LAMBDA s1 : Failed(getNextToken(s1)))

ParsePrimary(s) ==
  IF s.CurTok = tok_identifier THEN ParseIdentifierExpr(s)
  ELSE IF s.CurTok = tok_number THEN ParseNumberExpr(s)
  ELSE IF s.CurTok = ChLParen THEN ParseParenExpr(s)
  ELSE Failed(LogError(s, "unknown token, expecting expression"))

(* the conversion of an int to the char key of std::map<char, int> and to  *)
(* the char Op of BinaryExprAST (char is signed on the builds' targets)    *)
ToChar(c) == ((c + 128) % 256) - 128

(* BinopPrecedence[key]: std::map::operator[] inserts a value-initialised  *)
(* entry when the key is absent                                            *)
MapIndex(s, key) ==
  IF key \in DOMAIN s.BinopPrecedence THEN s
  ELSE [s EXCEPT !.BinopPrecedence = (key :> 0) @@ @]

(* the guard of GetTokPrecedence that returns -1 before the table is read: *)
(* if (!isascii(CurTok)) in part_001, if (isascii(CurTok)) in main.cpp     *)
PrecGuard(s) ==
  IF s.build = "part_001" THEN ~isascii(s.CurTok) ELSE isascii(s.CurTok)

(* GetTokPrecedence: the state it leaves and the precedence it returns *)
GetTokPrecedence(s) ==
  IF PrecGuard(s) THEN [s |-> s, prec |-> -1]
  ELSE Bind(MapIndex(s, ToChar(s.CurTok)), LAMBDA s1 :
       Bind(s1.BinopPrecedence[ToChar(s.CurTok)], LAMBDA TokPrec :
         [s |-> s1, prec |-> IF TokPrec <= 0 THEN -1 ELSE TokPrec]))

(* the body of the while (true) loop of ParseBinOpRHS from the operator on *)
BinOpRHSStep(ExprPrec, LHS, s, TokPrec) ==
  Bind(s.CurTok, LAMBDA BinOp :
  Bind(getNextToken(s), LAMBDA s1 :
  Bind(ParsePrimary(s1), LAMBDA RHS :
    IF RHS.node = Null THEN Failed(RHS.s)
    ELSE
      Bind(GetTokPrecedence(RHS.s), LAMBDA n :
      Bind(IF TokPrec < n.prec
           THEN ParseBinOpRHS(TokPrec + 1, RHS.node, n.s)
           ELSE [s |-> n.s, node |-> RHS.node], LAMBDA RHS1 :
        IF RHS1.node = Null THEN Failed(RHS1.s)
        ELSE Bind(BinaryExprAST(ToChar(BinOp), LHS, RHS1.node), LAMBDA LHS1 :
               ParseBinOpRHS(ExprPrec, LHS1, RHS1.s)))))))

ParseBinOpRHS(ExprPrec, LHS, s) ==
  Bind(GetTokPrecedence(s), LAMBDA g :
    IF g.prec < ExprPrec THEN [s |-> g.s, node |-> LHS]
    ELSE BinOpRHSStep(ExprPrec, LHS, g.s, g.prec))

ParseExpression(s) ==
  Bind(ParsePrimary(s), LAMBDA LHS :
    IF LHS.node = Null THEN Failed(LHS.s)
    ELSE ParseBinOpRHS(0, LHS.node, LHS.s))

(* while (getNextToken() == tok_identifier) ArgNames.push_back(IdentifierStr); *)
ReadArgNames(s, ArgNames) ==
  Bind(getNextToken(s), LAMBDA s1 :
    IF s1.CurTok = tok_identifier
    THEN Bind(Append(ArgNames, s1.IdentifierStr),
              LAMBDA names : ReadArgNames(s1, names))
    ELSE [s |-> s1, ArgNames |-> ArgNames])

ParsePrototype(s) ==
  IF s.CurTok # tok_identifier
  THEN Failed(LogError(s, "Expected function name in prototype"))
  ELSE
    Bind(s.IdentifierStr, LAMBDA FnName :
    Bind(getNextToken(s), LAMBDA s1 :
      IF s1.CurTok # ChLParen
      THEN Failed(LogError(s1, "Expected '(' in prototype"))
      ELSE
        Bind(ReadArgNames(s1, <<>>), LAMBDA a :
          IF a.s.CurTok # ChRParen
          THEN Failed(LogError(a.s, "Expected ')' in prototype"))
          ELSE [s |-> getNextToken(a.s),
                node |-> PrototypeAST(FnName, a.ArgNames)])))

ParseDefinition(s) ==
  Bind(getNextToken(s), LAMBDA s1 :
  Bind(ParsePrototype(s1), LAMBDA Proto :
    IF Proto.node = Null THEN Failed(Proto.s)
    ELSE Bind(ParseExpression(Proto.s), LAMBDA E :
           IF E.node # Null
           THEN [s |-> E.s, node |-> FunctionAST(Proto.node, E.node)]
           ELSE Failed(E.s))))

ParseExtern(s) == Bind(getNextToken(s), LAMBDA s1 : ParsePrototype(s1))

ParseTopLevelExpr(s) ==
  Bind(ParseExpression(s), LAMBDA E :
    IF E.node # Null
    THEN [s |-> E.s,
          node |-> FunctionAST(PrototypeAST(<<>>, <<>>), E.node)]
    ELSE Failed(E.s))

---------------------------------------------------------------------------
(* Code generation (part_001 only).  Of the IR only what decides success   *)
(* and the module's function list is kept: a function is its name, its     *)
(* argument names and whether it has a body (!empty()).                    *)

(* the decimal digits of n, as raw_ostream << unsigned writes them *)
RECURSIVE Decimal(_)
Decimal(n) ==
  IF n < 10 THEN <<48 + n>>
  ELSE Bind(n \div 10, LAMBDA q : Append(Decimal(q), 48 + (n % 10)))

(* the names of the functions of the module *)
FunctionNames(s) == {s.TheModule[i].Name : i \in 1..Len(s.TheModule)}

(* Module::getFunction: the index in TheModule of the function of that     *)
(* name, 0 for nullptr.  A function without a name is not in the symbol    *)
(* table.                                                                  *)
getFunction(s, Name) ==
  IF Name # <<>> /\ Name \in FunctionNames(s)
  THEN CHOOSE i \in 1..Len(s.TheModule) : s.TheModule[i].Name = Name
  ELSE 0

(* ValueSymbolTable::makeUniqueName for a function name that is taken:     *)
(* Name, '.', ++LastUnique, until the name is free                         *)
RECURSIVE makeUniqueName(_, _, _)
makeUniqueName(taken, Name, n) ==
  Bind(n + 1, LAMBDA n1 :
  Bind(Name \o <<ChDot>> \o Decimal(n1), LAMBDA u :
    IF u \in taken THEN makeUniqueName(taken, Name, n1)
    ELSE [Name |-> u, LastUnique |-> n1]))

(* the same for an argument name that an earlier argument of the function  *)
(* has: Name, ++LastUnique of the function's symbol table                  *)
RECURSIVE UniqueArgName(_, _, _)
UniqueArgName(taken, Name, n) ==
  Bind(n + 1, LAMBDA n1 :
  Bind(Name \o Decimal(n1), LAMBDA u :
    IF u \in taken THEN UniqueArgName(taken, Name, n1)
    ELSE [Name |-> u, n |-> n1]))

(* for (auto &Arg : F->args()) Arg.setName(Args[Idx++]); *)
RECURSIVE SetArgNames(_, _, _)
SetArgNames(Args, done, n) ==
  IF Args = <<>> THEN done
  ELSE
    Bind({done[i] : i \in 1..Len(done)}, LAMBDA taken :
    Bind(Tail(Args), LAMBDA rest :
      IF Head(Args) \in taken
      THEN Bind(UniqueArgName(taken, Head(Args), n), LAMBDA u :
           Bind(Append(done, u.Name), LAMBDA done1 :
             SetArgNames(rest, done1, u.n)))
      ELSE Bind(Append(done, Head(Args)), LAMBDA done1 :
             SetArgNames(rest, done1, n))))

(* PrototypeAST::codegen: Function::Create adds a declaration to the       *)
(* module; the state and the index of the function in TheModule            *)
PrototypeCodegen(s, Proto) ==
  Bind(FunctionNames(s), LAMBDA names :
  Bind(IF Proto.Name # <<>> /\ Proto.Name \in names
       THEN makeUniqueName(names, Proto.Name, s.LastUnique)
       ELSE [Name |-> Proto.Name, LastUnique |-> s.LastUnique], LAMBDA u :
  Bind([Name |-> u.Name, Args |-> SetArgNames(Proto.Args, <<>>, 0),
        Body |-> FALSE], LAMBDA F :
    [s |-> [s EXCEPT !.TheModule = Append(@, F),
                     !.LastUnique = u.LastUnique],
     F |-> Len(s.TheModule) + 1])))

(* ExprAST::codegen of the four node classes: ok is FALSE for nullptr *)
RECURSIVE ExprCodegen(_, _)
RECURSIVE ArgsCodegen(_, _)

(* the for loop of CallExprAST::codegen: stops at the first nullptr *)
ArgsCodegen(s, Args) ==
  IF Args = <<>> THEN [s |-> s, ok |-> TRUE]
  ELSE Bind(Head(Args), LAMBDA arg :
       Bind(Tail(Args), LAMBDA rest :
       Bind(ExprCodegen(s, arg), LAMBDA r :
         IF ~r.ok THEN r ELSE ArgsCodegen(r.s, rest))))

(* Value *V = NamedValues[Name]; operator[] inserts a null entry *)
VariableCodegen(s, Name) ==
  Bind(IF Name \in DOMAIN s.NamedValues THEN s
       ELSE [s EXCEPT !.NamedValues = (Name :> FALSE) @@ @], LAMBDA s1 :
    IF ~s1.NamedValues[Name]
    THEN [s |-> LogError(s1, "Unknown variable name"), ok |-> FALSE]
    ELSE [s |-> s1, ok |-> TRUE])

CallCodegen(s, node) ==
  Bind(getFunction(s, node.Callee), LAMBDA CalleeF :
    IF CalleeF = 0
    THEN [s |-> LogError(s, "Unknown function referenced"), ok |-> FALSE]
    ELSE IF Len(s.TheModule[CalleeF].Args) # Len(node.Args)
    THEN [s |-> LogError(s, "Incorrect number of arguments passed"),
          ok |-> FALSE]
    ELSE ArgsCodegen(s, node.Args))

ExprCodegen(s, node) ==
  IF node.kind = "Number" THEN [s |-> s, ok |-> TRUE]
  ELSE IF node.kind = "Variable" THEN VariableCodegen(s, node.Name)
  ELSE IF node.kind = "Binary" THEN
    Bind(node.LHS, LAMBDA lhs :
    Bind(node.RHS, LAMBDA rhs :
    Bind(ExprCodegen(s, lhs), LAMBDA L :
    Bind(ExprCodegen(L.s, rhs), LAMBDA R :
      IF ~L.ok \/ ~R.ok THEN [s |-> R.s, ok |-> FALSE]
      ELSE IF node.Op \in {ChPlus, ChMinus, ChStar, ChLess}
      THEN [s |-> R.s, ok |-> TRUE]
      ELSE [s |-> LogError(R.s, "invalid binary operator"), ok |-> FALSE]))))
  ELSE CallCodegen(s, node)

(* Function::eraseFromParent: the function leaves the module *)
eraseFromParent(s, F) ==
  [s EXCEPT !.TheModule =
     SubSeq(@, 1, F - 1) \o SubSeq(@, F + 1, Len(@))]

(* FunctionAST::codegen from BasicBlock::Create on, TheFunction being the  *)
(* index of the function in TheModule: the state and that index, 0 for     *)
(* nullptr                                                                 *)
BodyCodegen(s, TheFunction, Body) ==
  Bind(s.TheModule[TheFunction].Args, LAMBDA FArgs :
  Bind([s EXCEPT !.TheModule[TheFunction].Body = TRUE,
                 !.NamedValues =
                    [n \in {FArgs[i] : i \in 1..Len(FArgs)} |-> TRUE]],
       LAMBDA s1 :
  Bind(ExprCodegen(s1, Body), LAMBDA RetVal :
    IF RetVal.ok THEN [s |-> RetVal.s, F |-> TheFunction]
    ELSE [s |-> eraseFromParent(RetVal.s, TheFunction), F |-> 0])))

(* FunctionAST::codegen *)
FunctionCodegen(s, Fn) ==
  Bind(getFunction(s, Fn.Proto.Name), LAMBDA found :
  Bind(IF found = 0 THEN PrototypeCodegen(s, Fn.Proto)
       ELSE [s |-> s, F |-> found], LAMBDA p :
    IF p.s.TheModule[p.F].Body
    THEN [s |-> LogError(p.s, "Function cannot be redefined."), F |-> 0]
    ELSE BodyCodegen(p.s, p.F, Fn.Body)))

---------------------------------------------------------------------------
(* The handlers of MainLoop.  Each returns the state it leaves and r, what *)
(* the entity parse returned (the node, and the state at its return).      *)
(* main.cpp only reports a parsed entity; part_001 generates code for it.  *)

(* HandleDefinition without the getNextToken of its else branch *)
HandleDefinition_NoSkip(s) ==
  Bind(ParseDefinition(s), LAMBDA r :
    IF r.node # Null
    THEN [s |-> IF s.build = "part_001"
                THEN FunctionCodegen(r.s, r.node).s ELSE r.s,
          r |-> r]
    ELSE [s |-> r.s, r |-> r])

HandleDefinition(s) ==
  Bind(ParseDefinition(s), LAMBDA r :
    IF r.node # Null
    THEN [s |-> IF s.build = "part_001"
                THEN FunctionCodegen(r.s, r.node).s ELSE r.s,
          r |-> r]
    ELSE [s |-> getNextToken(r.s), r |-> r])

HandleExtern(s) ==
  Bind(ParseExtern(s), LAMBDA r :
    IF r.node # Null
    THEN [s |-> IF s.build = "part_001"
                THEN PrototypeCodegen(r.s, r.node).s ELSE r.s,
          r |-> r]
    ELSE [s |-> getNextToken(r.s), r |-> r])

(* part_001 erases the anonymous function once it has printed it *)
TopLevelCodegen(s, Fn) ==
  Bind(FunctionCodegen(s, Fn), LAMBDA FnIR :
    IF FnIR.F # 0 THEN eraseFromParent(FnIR.s, FnIR.F) ELSE FnIR.s)

(* HandleTopLevelExpression without the getNextToken of its else branch *)
HandleTopLevelExpression_NoSkip(s) ==
  Bind(ParseTopLevelExpr(s), LAMBDA r :
    IF r.node # Null
    THEN [s |-> IF s.build = "part_001"
                THEN TopLevelCodegen(r.s, r.node) ELSE r.s,
          r |-> r]
    ELSE [s |-> r.s, r |-> r])

HandleTopLevelExpression(s) ==
  Bind(ParseTopLevelExpr(s), LAMBDA r :
    IF r.node # Null
    THEN [s |-> IF s.build = "part_001"
                THEN TopLevelCodegen(r.s, r.node) ELSE r.s,
          r |-> r]
    ELSE [s |-> getNextToken(r.s), r |-> r])

(* main fills the precedence table before the first token is read *)
FillBinopPrecedence(s) ==
  [s EXCEPT !.BinopPrecedence =
     (ChLess :> 10) @@ (ChPlus :> 20) @@ (ChMinus :> 20) @@ (ChStar :> 40) @@ @]

(* MainLoop's switch sends tok_extern to HandleExtern in part_001; main.cpp *)
(* has no such case and the token falls to default                          *)
HasExternCase(b) == b = "part_001"

---------------------------------------------------------------------------
(* The state of the program as a record, and back *)

Cur ==
  [build |-> build, input |-> input, pos |-> pos, LastChar |-> LastChar,
   IdentifierStr |-> IdentifierStr, NumVal |-> NumVal, CurTok |-> CurTok,
   BinopPrecedence |-> BinopPrecedence, TheModule |-> TheModule,
   LastUnique |-> LastUnique, NamedValues |-> NamedValues,
   errs |-> errs, ntok |-> ntok]

Store(s) ==
  /\ pos' = s.pos
  /\ LastChar' = s.LastChar
  /\ IdentifierStr' = s.IdentifierStr
  /\ NumVal' = s.NumVal
  /\ CurTok' = s.CurTok
  /\ BinopPrecedence' = s.BinopPrecedence
  /\ TheModule' = s.TheModule
  /\ LastUnique' = s.LastUnique
  /\ NamedValues' = s.NamedValues
  /\ errs' = s.errs
  /\ ntok' = s.ntok
  /\ UNCHANGED <<build, input>>

(* what an iteration of MainLoop that ran a handler did: which entity, the *)
(* node its parse returned, ntok when the iteration began, when the parse  *)
(* returned and when the handler returned                                  *)
Ran(what, h) ==
  [what |-> what, node |-> h.r.node, start |-> ntok,
   parseEnd |-> h.r.s.ntok, end |-> h.s.ntok]

NoRun(what, s) ==
  [what |-> what, node |-> Null, start |-> ntok, parseEnd |-> ntok,
   end |-> s.ntok]

Handled(what, h) ==
  /\ Store(h.s)
  /\ parsed' = IF h.r.node # Null THEN Append(parsed, h.r.node) ELSE parsed
  /\ last' = Ran(what, h)
  /\ pc' = pc

---------------------------------------------------------------------------
(* The inputs.  Texts are sequences of character codes; the comment beside *)
(* each gives the characters.                                              *)

MaxLex == 3       \* lexemes in an input of the free family

MaxOps == 2       \* operators in an operator chain

MaxParams == 2    \* parameters of a prototype

MaxArgs == 2      \* arguments of a call

MaxBlank == 3     \* pieces of a blank (whitespace and comments) input

(* all sequences of at most n elements of S *)
SeqsUpTo(S, n) == UNION {[1..k -> S] : k \in 0..n}

(* the texts of a sequence of texts, one after the other, sep between them *)
RECURSIVE Join(_, _)
Join(texts, sep) ==
  IF texts = <<>> THEN <<>>
  ELSE IF Len(texts) = 1 THEN texts[1]
  ELSE texts[1] \o sep \o Join(Tail(texts), sep)

Flat(texts) == Join(texts, <<>>)

(* the free family: every concatenation of at most MaxLex of these lexemes *)
Lexemes ==
  { StrDef, StrExtern,
    <<97>>,                  \* a
    <<49>>,                  \* 1
    <<ChStar>>, <<ChLParen>>, <<ChRParen>>, <<ChSemi>>, <<ChSpace>>,
    <<ChHash>>,
    <<200>> }                \* a character outside ASCII

FreeInputs == {Flat(ls) : ls \in SeqsUpTo(Lexemes, MaxLex)}

(* primaries, each with the tree it is to parse to *)
Num(i, f) == NumberExprAST([int |-> i, frac |-> f])

Prims ==
  { [text |-> <<50, 46, 53, 48>>, tree |-> Num(2, <<53>>)],      \* 2.50
    [text |-> <<97>>, tree |-> VariableExprAST(<<97>>)],         \* a
    [text |-> <<102, 40, 98, 41>>,                               \* f(b)
     tree |-> CallExprAST(<<102>>, <<VariableExprAST(<<98>>)>>)] }

(* the default table of the specification: < 10, + 20, - 20, * 40 *)
TablePrec == (ChLess :> 10) @@ (ChPlus :> 20) @@ (ChMinus :> 20) @@ (ChStar :> 40)

TableOps == DOMAIN TablePrec

(* operator chains p (op p)^k, k <= n *)
RECURSIVE ChainTexts(_)
ChainTexts(n) ==
  IF n = 0 THEN {p.text : p \in Prims}
  ELSE ChainTexts(n - 1) \cup
       {c \o <<op>> \o p.text : c \in ChainTexts(n - 1), op \in TableOps, p \in Prims}

(* expressions of at most one operator, each with the tree it is to parse to *)
SmallPrims ==
  { [text |-> <<49>>, tree |-> Num(1, <<>>)],                    \* 1
    [text |-> <<97>>, tree |-> VariableExprAST(<<97>>)],         \* a
    [text |-> <<98>>, tree |-> VariableExprAST(<<98>>)] }        \* b

SmallExprs ==
  SmallPrims \cup
  { [text |-> p.text \o <<op>> \o q.text,
     tree |-> BinaryExprAST(op, p.tree, q.tree)] :
    p \in SmallPrims, op \in TableOps, q \in SmallPrims }


(* (e1) op p, and (e1 with the closing parenthesis missing, followed by    *)
(* the end of input, a semicolon or another primary                        *)
ParenText(e1, op, p) == <<ChLParen>> \o e1.text \o <<ChRParen, op>> \o p.text

OpenTails ==
  { <<>>,
    <<ChSemi>>,              \* ;
    <<ChSpace, 49>>,         \*  1
    <<ChComma, 97>> }        \* ,a

OpenParenText(e1, tail) == <<ChLParen>> \o e1.text \o tail

ParenInputs ==
  {ParenText(e1, op, p) : e1 \in SmallExprs, op \in TableOps, p \in SmallPrims}
  \cup {OpenParenText(e1, tail) : e1 \in SmallExprs, tail \in OpenTails}

(* name(p1 ... pn), def name(p1 ... pn) body and extern name(p1 ... pn) *)
FnNames ==
  { <<102, 111, 111>>,       \* foo
    <<103>> }                \* g

ParamNames ==
  { <<97>>,                  \* a
    <<98>> }                 \* b

ProtoText(name, params) ==
  name \o <<ChLParen>> \o Join(params, <<ChSpace>>) \o <<ChRParen>>

DefText(name, params, body) ==
  StrDef \o <<ChSpace>> \o ProtoText(name, params) \o <<ChSpace>> \o body.text

ExternText(name, params) == StrExtern \o <<ChSpace>> \o ProtoText(name, params)

DefInputs ==
  {DefText(name, params, body) :
     name \in FnNames, params \in SeqsUpTo(ParamNames, MaxParams),
     body \in SmallExprs}

(* what may follow an extern declaration *)
ExternTails ==
  { <<>>,
    <<ChSemi>>,                                  \* ;
    <<ChSpace, 49>>,                             \*  1
    <<ChNL>> \o StrDef \o <<ChSpace, 103, 40, 41, 49>> }   \* \ndef g()1

ExternInputs ==
  {ExternText(name, params) \o tail :
     name \in FnNames, params \in SeqsUpTo(ParamNames, MaxParams),
     tail \in ExternTails}

(* f(a1,...,an), and the same cut off after a comma *)
ArgExprs ==
  { e \in SmallExprs :
      e.text \in { <<49>>, <<97>>,
                   <<49, ChPlus, 97>>,           \* 1+a
                   <<97, ChStar, 98>> } }        \* a*b

ArgsText(args) == Join([i \in 1..Len(args) |-> args[i].text], <<ChComma>>)

CallText(name, args) == name \o <<ChLParen>> \o ArgsText(args) \o <<ChRParen>>

CutCallText(name, args) == name \o <<ChLParen>> \o ArgsText(args) \o <<ChComma>>

CallInputs ==
  {CallText(name, args) : name \in FnNames, args \in SeqsUpTo(ArgExprs, MaxArgs)}
  \cup {CutCallText(name, args) :
          name \in FnNames, args \in SeqsUpTo(ArgExprs, MaxArgs) \ {<<>>}}

(* blank inputs: whitespace and comments, the last comment possibly ended  *)
(* by the end of input                                                     *)
BlankPieces ==
  { <<ChSpace>>, <<9>>, <<ChNL>>, <<ChCR>>,     \* space, tab, \n, \r
    <<ChHash, ChNL>>,                            \* #\n
    <<ChHash, 49, ChPlus, 97, ChCR>>,            \* #1+a\r
    <<ChHash, ChSpace>> \o StrDef \o <<ChSpace, ChHash, ChNL>> }   \* # def #\n

BlankEnds ==
  { <<>>,
    <<ChHash>>,                                  \* #
    <<ChHash>> \o StrExtern \o <<ChSpace, 97, ChLParen>> }   \* #extern a(

BlankInputs ==
  {Flat(ps) \o e : ps \in SeqsUpTo(BlankPieces, MaxBlank), e \in BlankEnds}

(* an entity that parses, one that does not, and one that parses again *)
GoodTexts ==
  { <<49>>,                                          \* 1
    StrDef \o <<ChSpace, 103, 40, 41, 49>>,          \* def g()1
    StrExtern \o <<ChSpace, 103, 40, 97, 41>>,       \* extern g(a)
    <<103, 40, 49, 41, ChSemi>> }                    \* g(1);

BadTexts ==
  { StrDef \o <<ChSpace, 49>>,                       \* def 1
    StrDef \o <<ChSpace, 103, 40, 49>>,              \* def g(1
    StrDef \o <<ChSpace, 103, 40, 41, ChStar>>,      \* def g()*
    StrExtern \o <<ChSpace, ChLParen>>,              \* extern (
    <<ChRParen>>,                                    \* )
    <<102, 40, 49, ChSpace, 50, 41>> }               \* f(1 2)

(* words: the keywords, words that start with or hold a keyword, words     *)
(* with digits; what may stand before and after a word                     *)
Words ==
  { StrDef, StrExtern,
    StrDef \o <<120>>,                   \* defx
    StrExtern \o <<49>>,                 \* extern1
    <<100, 101>>,                        \* de
    <<120>> \o StrDef,                   \* xdef
    <<100, 51, 102>>,                    \* d3f
    <<90, 57>> }                         \* Z9

WordLeads ==
  { <<>>,
    <<ChSpace, ChNL>>,                   \* space, \n
    <<ChLParen>>,                        \* (
    <<ChHash, 97, ChNL>> }               \* #a\n

WordEnds ==
  { <<>>,
    <<ChSpace, 98>>,                     \*  b
    <<ChLParen, ChRParen>>,              \* ()
    <<ChPlus, 97>>,                      \* +a
    <<ChHash>>,                          \* #
    <<ChDot, 53>>,                       \* .5
    <<95, 97>> }                         \* _a

WordInputs == {l \o w \o e : l \in WordLeads, w \in Words, e \in WordEnds}

(* a definition of g(a) after nothing, after a declaration or a definition *)
(* of g or of another function; the body generates code or does not        *)
BeforeDefTexts ==
  { <<>>,
    StrExtern \o <<ChSpace, 103, 40, 97, 41, ChSpace>>,            \* extern g(a)
    StrExtern \o <<ChSpace, 103, 40, 98, 41, ChSpace>>,            \* extern g(b)
    StrExtern \o <<ChSpace, 104, 40, 97, 41, ChSpace>>,            \* extern h(a)
    StrDef \o <<ChSpace, 103, 40, 97, 41, ChSpace, 97, ChSpace>> } \* def g(a) a

DefBodyTexts ==
  { <<97>>,                              \* a
    <<98>>,                              \* b
    <<49, ChPlus, 98>>,                  \* 1+b
    <<104, 40, 97, 41>>,                 \* h(a)
    <<103, 40, 97, 41>>,                 \* g(a)
    <<103, 40, 41>> }                    \* g()

CodegenInputs ==
  {pre \o StrDef \o <<ChSpace, 103, 40, 97, 41, ChSpace>> \o body :
     pre \in BeforeDefTexts, body \in DefBodyTexts}

RecoveryInputs ==
  {g1 \o <<ChSpace>> \o b \o <<ChSpace>> \o g2 :
     g1 \in GoodTexts, b \in BadTexts, g2 \in GoodTexts}

Inputs ==
  FreeInputs \cup ChainTexts(MaxOps) \cup ParenInputs \cup DefInputs
  \cup ExternInputs \cup CallInputs \cup BlankInputs \cup RecoveryInputs
  \cup WordInputs \cup CodegenInputs

---------------------------------------------------------------------------
(* The program *)

Builds == {"main.cpp", "part_001"}

Init ==
  /\ build \in Builds
  /\ input \in Inputs
  /\ pos = 1
  /\ LastChar = ChSpace
  /\ IdentifierStr = <<>>
  /\ NumVal = [int |-> 0, frac |-> <<>>]
  /\ CurTok = 0
  /\ BinopPrecedence = [k \in {} |-> 0]
  /\ TheModule = <<>>
  /\ LastUnique = 0
  /\ NamedValues = [n \in {} |-> FALSE]
  /\ errs = <<>>
  /\ ntok = 0
  /\ pc = "main"
  /\ parsed = <<>>
  /\ last = [what |-> "none", node |-> Null, start |-> 0, parseEnd |-> 0,
             end |-> 0]

(* main up to the call of MainLoop: fill the table, read the first token   *)
(* (InitializeModule of part_001 creates the module, empty as it starts)   *)
Main ==
  /\ pc = "main"
  /\ \E s \in {FillBinopPrecedence(Cur)} : Store(getNextToken(s))
  /\ pc' = "loop"
  /\ UNCHANGED <<parsed, last>>

(* case tok_eof: return *)
MainLoopEof ==
  /\ pc = "loop"
  /\ CurTok = tok_eof
  /\ pc' = "done"
  /\ last' = NoRun("eof", Cur)
  /\ UNCHANGED <<build, input, pos, LastChar, IdentifierStr, NumVal, CurTok,
                 BinopPrecedence, TheModule, LastUnique, NamedValues, errs,
                 ntok, parsed>>

(* case ';': getNextToken() *)
MainLoopSemi ==
  /\ pc = "loop"
  /\ CurTok = ChSemi
  /\ \E c \in {Cur} : \E s \in {getNextToken(c)} :
       Store(s) /\ last' = NoRun("semi", s)
  /\ UNCHANGED <<pc, parsed>>

(* case tok_def: HandleDefinition() *)
MainLoopDef ==
  /\ pc = "loop"
  /\ CurTok = tok_def
  /\ \E c \in {Cur} : \E h \in {HandleDefinition(c)} : Handled("def", h)

(* case tok_extern: HandleExtern() *)
MainLoopExtern ==
  /\ pc = "loop"
  /\ CurTok = tok_extern
  /\ HasExternCase(build)
  /\ \E c \in {Cur} : \E h \in {HandleExtern(c)} : Handled("extern", h)

(* default: HandleTopLevelExpression() *)
MainLoopDefault ==
  /\ pc = "loop"
  /\ CurTok \notin {tok_eof, ChSemi, tok_def}
  /\ HasExternCase(build) => CurTok # tok_extern
  /\ \E c \in {Cur} : \E h \in {HandleTopLevelExpression(c)} : Handled("expr", h)

Next ==
  \/ Main
  \/ MainLoopEof
  \/ MainLoopSemi
  \/ MainLoopDef
  \/ MainLoopExtern
  \/ MainLoopDefault

Spec == Init /\ [][Next]_vars

(* the program runs on: an iteration of MainLoop that can be taken is      *)
(* taken (one thread, no blocking call but getchar, whose input is all     *)
(* there)                                                                  *)
FairSpec == Spec /\ WF_vars(Next)

---------------------------------------------------------------------------
(* Properties *)

(* the first iteration of MainLoop ran a handler *)
FirstEntityDone == last.start = 1 /\ last.what \in {"def", "extern", "expr"}

(* the anonymous function a bare expression is wrapped in *)
Anonymous(Body) == FunctionAST(PrototypeAST(<<>>, <<>>), Body)

ChainText(p1, op1, p2, op2, p3) ==
  p1.text \o <<op1>> \o p2.text \o <<op2>> \o p3.text

RightNested(p1, op1, p2, op2, p3) ==
  BinaryExprAST(op1, p1.tree, BinaryExprAST(op2, p2.tree, p3.tree))

LeftNested(p1, op1, p2, op2, p3) ==
  BinaryExprAST(op2, BinaryExprAST(op1, p1.tree, p2.tree), p3.tree)

(* the input is p1 op1 p2 op2 p3, the whole of it was consumed and parsed  *)
(* to the bare expression tree                                             *)
ParsedWholeAs(tree) ==
  /\ last.what = "expr"
  /\ last.node = Anonymous(tree)
  /\ CurTok = tok_eof

(* C1: on p1 op1 p2 op2 p3 with op2 of higher precedence than op1 in the   *)
(* default table, ParseExpression consumes the whole expression and        *)
(* returns BinaryOp(op1, p1, BinaryOp(op2, p2, p3)), for all primaries and *)
(* table operators.                                                        *)
C1_Precedence ==
  FirstEntityDone =>
    \A op1, op2 \in TableOps :
      TablePrec[op1] < TablePrec[op2] =>
        \A p1, p2, p3 \in Prims :
          input = ChainText(p1, op1, p2, op2, p3) =>
            ParsedWholeAs(RightNested(p1, op1, p2, op2, p3))

(* C1 holds of part_001, whose GetTokPrecedence has the guard the right    *)
(* way round                                                               *)
C1_Precedence_part_001 == build = "part_001" => C1_Precedence

(* C2: GetTokPrecedence returns the table's precedence exactly when the    *)
(* current token is an operator character the table holds with a positive  *)
(* value, and -1 for every other current token.                            *)
RegisteredOperator(tok) ==
  /\ tok \in 0..255
  /\ ToChar(tok) \in DOMAIN BinopPrecedence
  /\ BinopPrecedence[ToChar(tok)] > 0

C2_TokPrecedence ==
  GetTokPrecedence(Cur).prec =
    IF RegisteredOperator(CurTok) THEN BinopPrecedence[ToChar(CurTok)] ELSE -1

C2_TokPrecedence_part_001 == build = "part_001" => C2_TokPrecedence

(* C3: on p1 op p2 op' p3 with op and op' of equal precedence,             *)
(* ParseExpression returns BinaryOp(op', BinaryOp(op, p1, p2), p3); the    *)
(* loop recurses on the right-hand side only when the following operator's *)
(* precedence is strictly greater, so the same holds when op' is lower.    *)
C3_LeftAssociative ==
  FirstEntityDone =>
    \A op1, op2 \in TableOps :
      TablePrec[op2] <= TablePrec[op1] =>
        \A p1, p2, p3 \in Prims :
          input = ChainText(p1, op1, p2, op2, p3) =>
            ParsedWholeAs(LeftNested(p1, op1, p2, op2, p3))

C3_LeftAssociative_part_001 == build = "part_001" => C3_LeftAssociative

(* C4: on (e1) op p ParseExpression returns BinaryOp(op, T(e1), p), the    *)
(* parentheses leaving no node, and a parenthesized expression whose       *)
(* closing parenthesis is missing fails with "expected ')'".               *)
C4_Parentheses ==
  FirstEntityDone =>
    /\ \A e1 \in SmallExprs, op \in TableOps, p \in SmallPrims :
         input = ParenText(e1, op, p) =>
           ParsedWholeAs(BinaryExprAST(op, e1.tree, p.tree))
    /\ \A e1 \in SmallExprs, tail \in OpenTails :
         input = OpenParenText(e1, tail) =>
           /\ last.node = Null
           /\ parsed = <<>>
           /\ Len(errs) = 1
           /\ errs[1].msg = "expected ')'"

C4_Parentheses_part_001 == build = "part_001" => C4_Parentheses

(* C5: def name(p1 ... pn) body yields a FunctionDef whose prototype has   *)
(* that name and the parameters p1..pn in source order and whose body is   *)
(* the tree of the whole body expression.                                  *)
C5_Definition ==
  FirstEntityDone =>
    \A name \in FnNames, params \in SeqsUpTo(ParamNames, MaxParams),
       body \in SmallExprs :
      input = DefText(name, params, body) =>
        /\ last.what = "def"
        /\ last.node = FunctionAST(PrototypeAST(name, params), body.tree)
        /\ CurTok = tok_eof

C5_Definition_part_001 == build = "part_001" => C5_Definition

(* C6: a bare top-level call f(a1, ..., an) yields a Call with callee f    *)
(* and the argument trees in source order, wrapped in a FunctionDef whose  *)
(* prototype has the empty name and no parameters.                         *)
ArgTrees(args) == [i \in 1..Len(args) |-> args[i].tree]

C6_TopLevelCall ==
  FirstEntityDone =>
    \A name \in FnNames, args \in SeqsUpTo(ArgExprs, MaxArgs) :
      input = CallText(name, args) =>
        ParsedWholeAs(CallExprAST(name, ArgTrees(args)))

C6_TopLevelCall_part_001 == build = "part_001" => C6_TopLevelCall

(* the first entity was a call cut off after a comma, and its parse failed *)
(* leaving no node                                                         *)
CutCallFailed ==
  /\ last.what = "expr"
  /\ last.node = Null
  /\ parsed = <<>>
  /\ Len(errs) = 1

(* no getNextToken call was made between the diagnostic and the return of  *)
(* the failing parse                                                       *)
NoTokenAfterDiagnostic == last.parseEnd = errs[Len(errs)].at

(* C7 as the specification states it: a call cut off after a comma fails   *)
(* with "Expected ')' or ',' in argument list", returns no Call node and   *)
(* consumes no token beyond those read before the failure was detected.    *)
C7_CutCall_AsClaimed ==
  FirstEntityDone =>
    \A name \in FnNames, args \in SeqsUpTo(ArgExprs, MaxArgs) \ {<<>>} :
      input = CutCallText(name, args) =>
        /\ CutCallFailed
        /\ errs[1].msg = "Expected ')' or ',' in argument list"
        /\ NoTokenAfterDiagnostic

(* an argument that holds no operator *)
IsPrimaryArg(e) == e \in SmallPrims

(* C7, amended: a call cut off after a comma fails, returns no Call node   *)
(* and its parse reads no token after the diagnostic; when the arguments   *)
(* before the cut are primaries (as in foo(1, ) the diagnostic is          *)
(* ParsePrimary's "unknown token, expecting expression", printed at the    *)
(* end of input where the next argument should start.                      *)
C7_CutCall ==
  FirstEntityDone =>
    \A name \in FnNames, args \in SeqsUpTo(ArgExprs, MaxArgs) \ {<<>>} :
      input = CutCallText(name, args) =>
        /\ CutCallFailed
        /\ NoTokenAfterDiagnostic
        /\ (\A i \in 1..Len(args) : IsPrimaryArg(args[i])) =>
             /\ errs[1].msg = "unknown token, expecting expression"
             /\ errs[1].at = 3 + 2 * Len(args)

C7_CutCall_Witness ==
  /\ FirstEntityDone
  /\ input = CutCallText(<<102, 111, 111>>, <<[text |-> <<49>>, tree |-> Num(1, <<>>)]>>)
  /\ CutCallFailed
  /\ errs[1].msg = "unknown token, expecting expression"

(* C8: at the extern keyword the driver parses a prototype-only            *)
(* declaration name(p1 ... pn), producing a Prototype with that name and   *)
(* parameters and no body; it is not treated as a top-level expression.    *)
C8_Extern ==
  FirstEntityDone =>
    \A name \in FnNames, params \in SeqsUpTo(ParamNames, MaxParams),
       tail \in ExternTails :
      input = ExternText(name, params) \o tail =>
        /\ last.what = "extern"
        /\ last.node = PrototypeAST(name, params)
        /\ errs = <<>>

C8_Extern_part_001 == build = "part_001" => C8_Extern

(* the text from index i on is whitespace and comments only; inComment     *)
(* says whether index i lies inside a comment                              *)
RECURSIVE BlankFrom(_, _, _)
BlankFrom(text, i, inComment) ==
  IF i > Len(text) THEN TRUE
  ELSE IF inComment
  THEN BlankFrom(text, i + 1, text[i] \notin {ChNL, ChCR})
  ELSE /\ isspace(text[i]) \/ text[i] = ChHash
       /\ BlankFrom(text, i + 1, text[i] = ChHash)

IsBlank(text) == BlankFrom(text, 1, FALSE)

(* the text ends inside a comment: its last line holds a '#' *)
RECURSIVE EndsInComment(_, _)
EndsInComment(text, i) ==
  /\ i >= 1
  /\ text[i] \notin {ChNL, ChCR}
  /\ text[i] = ChHash \/ EndsInComment(text, i - 1)

(* C9: on an input of whitespace and '#' comments only (a comment may end  *)
(* at the end of input without a newline) the first token the lexer        *)
(* returns is end-of-input and the driver loop returns without parsing an  *)
(* entity or emitting a diagnostic; a comment never becomes a token.       *)
C9_BlankInput ==
  /\ (pc # "main" /\ IsBlank(input)) =>
       /\ CurTok = tok_eof
       /\ ntok = 1
       /\ last.what \in {"none", "eof"}
       /\ parsed = <<>>
       /\ errs = <<>>
  /\ getTok(Cur).tok # ChHash

C9_BlankInput_Witness ==
  /\ pc = "done"
  /\ IsBlank(input)
  /\ EndsInComment(input, Len(input))
  /\ \E i \in 1..Len(input) : isalpha(input[i])
  /\ last.what = "eof"

(* C10: when the parse of a top-level entity fails the driver discards     *)
(* exactly one token (one getNextToken call) before the next iteration,    *)
(* and when the parse succeeds it discards none.                           *)
C10_Resynchronize ==
  last.what \in {"def", "extern", "expr"} =>
    IF last.node = Null THEN last.end = last.parseEnd + 1
    ELSE last.end = last.parseEnd

(* a failed definition after a parsed entity, with input left to go on *)
C10_Resynchronize_Witness ==
  /\ last.what = "def"
  /\ last.node = Null
  /\ last.end = last.parseEnd + 1
  /\ parsed # <<>>
  /\ CurTok # tok_eof

(* C11: from the moment main has filled it the precedence table is         *)
(* read-only: no parsing operation, and no GetTokPrecedence lookup for any *)
(* current token, adds, removes or changes an entry, so the table stays    *)
(* the default one, of key set {<, +, -, *}.                               *)
C11_ReadOnlyTable ==
  pc # "main" =>
    /\ BinopPrecedence = TablePrec
    /\ GetTokPrecedence(Cur).s.BinopPrecedence = BinopPrecedence

(* what the lookups do keep: the entries of the default table, and no      *)
(* other key with a positive value                                         *)
C11_OperatorsKept ==
  pc # "main" =>
    /\ \A op \in TableOps :
         op \in DOMAIN BinopPrecedence /\ BinopPrecedence[op] = TablePrec[op]
    /\ \A k \in DOMAIN BinopPrecedence \ TableOps : BinopPrecedence[k] = 0

(* the diagnostics of the parse functions *)
ParserMessages ==
  { "unknown token, expecting expression", "expected ')'",
    "Expected ')' or ',' in argument list",
    "Expected function name in prototype", "Expected '(' in prototype",
    "Expected ')' in prototype" }

(* the diagnostics the parse of the step printed *)
NewParserDiagnostics ==
  SelectSeq(SubSeq(errs', Len(errs) + 1, Len(errs')),
            LAMBDA e : e.msg \in ParserMessages)

(* a node with no no-result inside *)
RECURSIVE Complete(_)
Complete(node) ==
  IF node.kind \in {"Number", "Variable"} THEN TRUE
  ELSE IF node.kind = "Binary" THEN Complete(node.LHS) /\ Complete(node.RHS)
  ELSE IF node.kind = "Call"
  THEN \A i \in 1..Len(node.Args) : Complete(node.Args[i])
  ELSE IF node.kind = "Prototype" THEN TRUE
  ELSE IF node.kind = "Function"
  THEN /\ node.Proto.kind = "Prototype"
       /\ node.Body.kind \in {"Number", "Variable", "Binary", "Call"}
       /\ Complete(node.Body)
  ELSE FALSE

(* the step is an iteration of MainLoop that parses an entity *)
EntityStep == pc = "loop" /\ last'.what \in {"def", "extern", "expr"}

(* C12: failure short-circuits.  An entity parse returns a complete node   *)
(* or no-result; it returns no-result exactly when a sub-parse failed, and *)
(* then no caller went on: one diagnostic only was printed, no node was    *)
(* built and no token was read between the failure and the return of the   *)
(* entity-level parse.  A definition is produced only with a prototype and *)
(* a body that both parsed.                                                *)
C12_ShortCircuit ==
  [][EntityStep =>
       /\ (last'.node = Null) <=> (NewParserDiagnostics # <<>>)
       /\ last'.node = Null =>
            /\ Len(NewParserDiagnostics) = 1
            /\ last'.parseEnd = NewParserDiagnostics[1].at
            /\ parsed' = parsed
       /\ last'.node # Null =>
            /\ Complete(last'.node)
            /\ parsed' = Append(parsed, last'.node)
       /\ (last'.what = "def" /\ last'.node # Null) =>
            last'.node.kind = "Function"]_vars

(* a definition whose prototype parsed and whose body failed in            *)
(* ParsePrimary, after an entity that parsed                               *)
C12_ShortCircuit_Witness ==
  /\ last.what = "def"
  /\ last.node = Null
  /\ parsed # <<>>
  /\ errs # <<>>
  /\ errs[Len(errs)].msg = "unknown token, expecting expression"
  /\ errs[Len(errs)].at = last.parseEnd
  /\ last.parseEnd >= last.start + 4

(* the token cursor moves on: a token was read, and for it the lexer read  *)
(* on in stdin or handed out the end of input                              *)
CursorAdvances ==
  /\ ntok' > ntok
  /\ pos' > pos \/ CurTok' = tok_eof

(* C13: the driver loop terminates on every finite input: each iteration   *)
(* of MainLoop that does not start at end-of-input advances the token      *)
(* cursor by at least one token, so end-of-input is eventually reached and *)
(* the loop returns.                                                       *)
C13_Terminates ==
  /\ [][(pc = "loop" /\ CurTok # tok_eof) => CursorAdvances]_vars
  /\ <>(pc = "done")

(* the loop returned after a failed parse, a recovery skip and parsed      *)
(* entities                                                                *)
C13_Terminates_Witness ==
  /\ pc = "done"
  /\ last.what = "eof"
  /\ errs # <<>>
  /\ \E i \in 1..Len(errs) : errs[i].msg \in ParserMessages
  /\ Len(parsed) >= 2
  /\ pos > Len(input)

(* the alphanumeric characters of text from index i up to the first        *)
(* character that is not alphanumeric, or to the end of text               *)
RECURSIVE AlnumRun(_, _)
AlnumRun(text, i) ==
  IF i <= Len(text) /\ isalnum(text[i])
  THEN <<text[i]>> \o AlnumRun(text, i + 1)
  ELSE <<>>

(* the token of a word *)
WordToken(word) ==
  IF word = StrDef THEN tok_def
  ELSE IF word = StrExtern THEN tok_extern
  ELSE tok_identifier

(* the character of stdin at index i, EOF after its end *)
CharAt(i) == IF i <= Len(input) THEN input[i] ELSE EOF

(* C14: identifiers are scanned by maximal munch.  When the lexer stands   *)
(* at an alphabetic character (s: the state once whitespace is skipped),   *)
(* getTok takes that character and all the alphanumeric characters that    *)
(* follow as one word, returns tok_def or tok_extern only when the word is *)
(* exactly "def" or "extern" and tok_identifier otherwise, with the whole  *)
(* word as IdentifierStr; the character that ended the word is LastChar,   *)
(* pending for the next call, and nothing after it was read.               *)
C14_MaximalMunch ==
  \A s \in {SkipSpace(Cur)} :
    isalpha(s.LastChar) =>
      \A r \in {getTok(Cur)} :
      \A word \in {<<s.LastChar>> \o AlnumRun(input, s.pos)} :
        /\ r.tok = WordToken(word)
        /\ r.s = [s EXCEPT !.IdentifierStr = word,
                           !.LastChar = CharAt(s.pos + Len(word) - 1),
                           !.pos = s.pos + Len(word)]

(* extern1 was read as one identifier, the '(' after it pending *)
C14_MaximalMunch_Witness ==
  /\ pc = "loop"
  /\ ntok = 1
  /\ CurTok = tok_identifier
  /\ IdentifierStr = StrExtern \o <<49>>
  /\ LastChar = ChLParen

(* the declared and defined functions of the module *)
Functions(s) == {s.TheModule[i] : i \in 1..Len(s.TheModule)}

(* MainLoop of part_001 stands at a definition that parses: p is what      *)
(* ParseDefinition returns, g what FunctionAST::codegen returns for it     *)
FailedDefinitionKeeps(Kept(_, _)) ==
  (build = "part_001" /\ pc = "loop" /\ CurTok = tok_def) =>
    \A c \in {Cur} : \A p \in {ParseDefinition(c)} :
      p.node # Null =>
        \A g \in {FunctionCodegen(p.s, p.node)} :
          g.F = 0 => Kept(p, g)

(* C15: when FunctionAST::codegen fails (the function has a body already,  *)
(* or the body does not lower: unknown variable, unknown callee) the       *)
(* module's declared and defined functions are those before the call; a    *)
(* declaration an earlier extern of the same name made is still there.     *)
C15_FailedCodegenKeepsModule ==
  FailedDefinitionKeeps(LAMBDA p, g : Functions(g.s) = Functions(p.s))

(* what the code does keep: every function but the one of the definition's *)
(* name, and that one too when it had a body                               *)
C15_OtherFunctionsKept ==
  FailedDefinitionKeeps(LAMBDA p, g :
    /\ Functions(g.s) \subseteq Functions(p.s)
    /\ \A f \in Functions(p.s) :
         (f.Name # p.node.Proto.Name \/ f.Body) => f \in Functions(g.s))

(* C16: end-of-input is absorbing for the lexer.  getTok returns tok_eof   *)
(* only with LastChar at EOF and leaves it there; from then on, whatever   *)
(* calls came before (one that ended inside a comment too), a call returns *)
(* tok_eof again and changes nothing: no character is read, IdentifierStr  *)
(* and NumVal stay.  Over a whole run getchar() returns EOF at most once.  *)
C16_EofAbsorbing ==
  /\ (pc # "main" /\ CurTok = tok_eof) => LastChar = EOF
  /\ LastChar = EOF =>
       \A c \in {Cur} : getTok(c) = [s |-> c, tok |-> tok_eof]
  /\ pos <= Len(input) + 2

(* a(# : the end of input is met inside the comment, and the parse and the *)
(* recovery skip call the lexer again after it                             *)
C16_EofAbsorbing_Witness ==
  /\ pc = "done"
  /\ input = <<97, ChLParen, ChHash>>
  /\ ntok = 4
  /\ CurTok = tok_eof
  /\ IdentifierStr = <<97>>
  /\ pos = Len(input) + 2

===========================================================================
